---- MODULE Spec2Model ----
(***************************************************************************)
(* A model of csv2xlsx.py: the sheet-name sanitizer, the dialect sniffer,  *)
(* the file discoverer and the workbook builder.                           *)
(*                                                                         *)
(* A Python str is a sequence of one-character strings, so that slicing,   *)
(* searching and comparing are computed as the code computes them.         *)
(***************************************************************************)
EXTENDS Integers, Sequences, FiniteSets, TLC

VARIABLES isdir, argDelimiter, recursive, tree,
          pc, exc, csv_files, idx, wbCreated, sheets, used_names,
          reader, sniffed, failed, outdirMade, saves,
          sanArg, calls

vars == <<isdir, argDelimiter, recursive, tree,
          pc, exc, csv_files, idx, wbCreated, sheets, used_names,
          reader, sniffed, failed, outdirMade, saves,
          sanArg, calls>>

(***************************************************************************)
(* Bounds of the model.                                                    *)
(***************************************************************************)
\* longest generated tail of a name given to the sanitizer alone
MaxNameLen == 3
\* most names of one family already in the used-names set
MaxTaken == 11
\* most calls of the sanitizer in one sequence
MaxCalls == 3
\* most entries of the input directory
MaxEntries == 3

(***************************************************************************)
(* Program constants.                                                      *)
(***************************************************************************)
ILLEGAL_SHEET_CHARS == {"[", "]", ":", "*", "?", "/", "\\", "'"}

MAX_SHEET_LEN == 31

\* fb.read(4096)
SAMPLE_BYTES == 4096

\* sniffer.sniff(..., delimiters=[",", ";", "\t", "|"])
SNIFF_DELIMITERS == {",", ";", "\t", "|"}

\* csv.excel.delimiter
EXCEL_DELIMITER == ","

(***************************************************************************)
(* Python's str, as far as the program uses it.                            *)
(***************************************************************************)
Min(a, b) == IF a < b THEN a ELSE b

Max(a, b) == IF a > b THEN a ELSE b

\* the characters str.strip() removes
Whitespace == {" ", "\t", "\n", "\r", "\f"}

\* the printable ASCII characters in code-point order, from 32 (the grave
\* accent, 96, cannot be written in a TLA+ string: the entry holds its place)
Printable == <<" ", "!", "\"", "#", "$", "%", "&", "'", "(", ")", "*", "+",
               ",", "-", ".", "/", "0", "1", "2", "3", "4", "5", "6", "7",
               "8", "9", ":", ";", "<", "=", ">", "?", "@", "A", "B", "C",
               "D", "E", "F", "G", "H", "I", "J", "K", "L", "M", "N", "O",
               "P", "Q", "R", "S", "T", "U", "V", "W", "X", "Y", "Z", "[",
               "\\", "]", "^", "_", "grave", "a", "b", "c", "d", "e", "f", "g",
               "h", "i", "j", "k", "l", "m", "n", "o", "p", "q", "r", "s",
               "t", "u", "v", "w", "x", "y", "z", "{", "|", "}", "~">>

\* ord(ch)
Ord(ch) ==
    IF ch = "\t" THEN 9
    ELSE IF ch = "\n" THEN 10
    ELSE 31 + (CHOOSE i \in 1..Len(Printable) : Printable[i] = ch)

\* ch.lower()
LowerChar(ch) ==
    IF Ord(ch) >= 65 /\ Ord(ch) <= 90 THEN Printable[Ord(ch) + 32 - 31] ELSE ch

\* s.lower()
Lower(s) == [i \in 1..Len(s) |-> LowerChar(s[i])]

\* s[:n], for any integer n (a negative n counts from the end)
Slice(s, n) ==
    IF n >= 0 THEN SubSeq(s, 1, Min(n, Len(s)))
    ELSE SubSeq(s, 1, Max(Len(s) + n, 0))

\* s.rfind(ch) + 1: the last position of ch in s, 0 when there is none
RFind(s, ch) ==
    LET at == {i \in 1..Len(s) : s[i] = ch}
    IN  IF at = {} THEN 0 ELSE CHOOSE i \in at : \A j \in at : j <= i

\* s.endswith(t)
EndsWith(s, t) ==
    /\ Len(s) >= Len(t)
    /\ SubSeq(s, Len(s) - Len(t) + 1, Len(s)) = t

\* s < t, as Python compares two str: by code point, a proper prefix first
StrLess(s, t) ==
    \/ /\ Len(s) < Len(t)
       /\ SubSeq(t, 1, Len(s)) = s
    \/ \E i \in 1..Min(Len(s), Len(t)) :
          /\ SubSeq(s, 1, i - 1) = SubSeq(t, 1, i - 1)
          /\ Ord(s[i]) < Ord(t[i])

\* str(n) of a natural number
RECURSIVE Str(_)
Str(n) ==
    IF n < 10 THEN <<Printable[Ord("0") - 31 + n]>>
    ELSE Str(n \div 10) \o <<Printable[Ord("0") - 31 + (n % 10)]>>

\* s.strip()
Strip(s) ==
    LET keep == {i \in 1..Len(s) : s[i] \notin Whitespace}
    IN  IF keep = {} THEN <<>>
        ELSE SubSeq(s, CHOOSE i \in keep : \A j \in keep : i <= j,
                       CHOOSE i \in keep : \A j \in keep : j <= i)

(***************************************************************************)
(* os.path, on a POSIX system: the separator is "/".                       *)
(***************************************************************************)
\* os.path.basename(p)
basename(p) == SubSeq(p, RFind(p, "/") + 1, Len(p))

\* os.path.join(a, b), for a relative b
join(a, b) ==
    IF a = <<>> \/ a[Len(a)] = "/" THEN a \o b ELSE a \o <<"/">> \o b

\* a splitext that cuts at the first dot of the final segment
splitext_first_dot(p) ==
    LET sepIndex == RFind(p, "/")
        dots == {i \in (sepIndex + 1)..Len(p) : p[i] = "."}
        dotIndex == IF dots = {} THEN 0
                    ELSE CHOOSE i \in dots : \A j \in dots : i <= j
    IN  IF dotIndex > sepIndex /\ \E k \in (sepIndex + 1)..(dotIndex - 1) : p[k] # "."
        THEN <<SubSeq(p, 1, dotIndex - 1), SubSeq(p, dotIndex, Len(p))>>
        ELSE <<p, <<>> >>

\* os.path.splitext(p): <<root, ext>>; the leading dots of the final segment
\* are part of the root
splitext(p) ==
    LET sepIndex == RFind(p, "/")
        dotIndex == RFind(p, ".")
    IN  IF dotIndex > sepIndex /\ \E k \in (sepIndex + 1)..(dotIndex - 1) : p[k] # "."
        THEN <<SubSeq(p, 1, dotIndex - 1), SubSeq(p, dotIndex, Len(p))>>
        ELSE <<p, <<>> >>

(***************************************************************************)
(* sanitize_sheet_name                                                     *)
(***************************************************************************)
SheetFallback == <<"S", "h", "e", "e", "t">>

\* "".join("_" if ch in ILLEGAL_SHEET_CHARS else ch for ch in name)
replace_illegal(name) ==
    [i \in 1..Len(name) |-> IF name[i] \in ILLEGAL_SHEET_CHARS THEN "_" ELSE name[i]]

\* the extension-stripped name with the illegal characters replaced and the
\* whitespace stripped, "Sheet" when nothing is left
clean_root(root) ==
    LET replaced == replace_illegal(root)
        stripped == Strip(replaced)
    IN  IF stripped = <<>> THEN SheetFallback ELSE stripped

\* base = name[:MAX_SHEET_LEN], of the name cleaned
base_of(name) == Slice(clean_root(splitext(name)[1]), MAX_SHEET_LEN)

\* f"_{counter}"
suffix_of(counter) == <<"_">> \o Str(counter)

\* a candidate that appends the suffix to the whole base
next_candidate_untruncated(base, counter) == base \o suffix_of(counter)

\* f"{base[:max_base_len]}{suffix}"
next_candidate(base, counter) ==
    LET suffix == suffix_of(counter)
        max_base_len == MAX_SHEET_LEN - Len(suffix)
    IN  Slice(base, max_base_len) \o suffix

\* an "if" in place of the "while": the suffixed candidate is not looked up
unique_candidate_if(base, used, candidate, counter) ==
    IF candidate \in used THEN next_candidate(base, counter) ELSE candidate

\* while candidate in used_names: ...
RECURSIVE unique_candidate(_, _, _, _)
unique_candidate(base, used, candidate, counter) ==
    IF candidate \in used
    THEN unique_candidate(base, used, next_candidate(base, counter), counter + 1)
    ELSE candidate

\* a sanitizer that forgets to record the title
add_used_forgotten(used, candidate) == used

\* used_names.add(candidate)
add_used(used, candidate) == used \cup {candidate}

\* the title returned, and the used-names set as the call leaves it
sanitize_sheet_name(name, used) ==
    LET base == base_of(name)
        candidate == unique_candidate(base, used, base, 1)
    IN  [title |-> candidate, used |-> add_used(used, candidate)]

(***************************************************************************)
(* sniff_dialect and read_csv_rows                                         *)
(***************************************************************************)
\* the characters of a str
Chars(s) == {s[i] : i \in 1..Len(s)}

\* csv.Sniffer().sniff(sample, delimiters): the standard library's heuristic.
\* It answers with one of the given delimiters that occurs in the sample, or
\* raises csv.Error; which of the two is left open.
Sniffer(sample) ==
    {[raised |-> FALSE, delimiter |-> c] : c \in SNIFF_DELIMITERS \cap Chars(sample)}
    \cup {[raised |-> TRUE, delimiter |-> ""]}

\* class SimpleDialect(csv.excel): delimiter = provided_delimiter;
\* SimpleDialect(): csv.Dialect.__init__ validates the dialect and raises
\* csv.Error unless the delimiter is a 1-character string
SimpleDialect(provided_delimiter) ==
    IF Len(provided_delimiter) = 1
    THEN [raised |-> FALSE, delimiter |-> provided_delimiter[1]]
    ELSE [raised |-> TRUE, delimiter |-> ""]

\* the outcomes of sniff_dialect(sample_bytes, provided_delimiter): the
\* dialect's delimiter, or an exception raised to the caller. None and ""
\* are both <<>>: "if provided_delimiter" treats them alike.
sniff_dialect(sample_bytes, provided_delimiter) ==
    IF provided_delimiter # <<>>
    THEN {SimpleDialect(provided_delimiter)}
    ELSE {IF o.raised THEN [raised |-> FALSE, delimiter |-> EXCEL_DELIMITER] ELSE o :
              o \in Sniffer(sample_bytes)}

\* s.split(sep), for a one-character sep
RECURSIVE Split(_, _)
Split(s, sep) ==
    LET at == {i \in 1..Len(s) : s[i] = sep}
    IN  IF at = {} THEN <<s>>
        ELSE LET i == CHOOSE k \in at : \A j \in at : k <= j
             IN  <<SubSeq(s, 1, i - 1)>> \o Split(SubSeq(s, i + 1, Len(s)), sep)

\* the lines of a text: the final newline ends the last line
Lines(text) ==
    LET parts == Split(text, "\n")
    IN  IF parts[Len(parts)] = <<>> THEN SubSeq(parts, 1, Len(parts) - 1) ELSE parts

\* a reader that loses the first row
csv_reader_skip_first(text, delimiter) ==
    LET lines == Lines(text)
    IN  [i \in 1..(Len(lines) - 1) |-> Split(lines[i + 1], delimiter)]

\* csv.reader(f, dialect), on a text without quotes: one row per line, the
\* fields split at the delimiter
csv_reader(text, delimiter) ==
    LET lines == Lines(text)
    IN  [i \in 1..Len(lines) |-> Split(lines[i], delimiter)]

(***************************************************************************)
(* The input directory.  An entry is a file with its content or a          *)
(* directory with its files; the order of tree is the order in which       *)
(* os.listdir and os.walk list it.                                         *)
(***************************************************************************)
input_dir == <<"d">>

CsvExt == <<".", "c", "s", "v">>

SalesData == <<"n", "a", "m", "e", ",", "a", "m", "t", "\n", "x", ",", "1", "\n">>

File(name, content) ==
    [name |-> name, kind |-> "file", content |-> content, children |-> <<>>]

Dir(name, children) ==
    [name |-> name, kind |-> "dir", content |-> <<>>, children |-> children]

EntryPool ==
    { File(<<"a">> \o CsvExt, <<"a", ",", "b", "\n">>),
      File(<<"C", ".", "C", "S", "V">>, <<>>),
      File(<<"n", ".", "t", "x", "t">>, <<"n", "\n">>),
      Dir(<<"x">> \o CsvExt, <<File(<<"a">> \o CsvExt, <<"p", "\n">>)>>),
      File(<<"s", "a", "l", "e", "s">> \o CsvExt, SalesData),
      File(<<"s", "a", "l", "e", "s", ".", "b", "a", "c", "k", "u", "p">> \o CsvExt,
           <<"a", ";", "b", "\n">>) }

\* the directories of at most MaxEntries entries, in every listing order
Trees ==
    {t \in UNION {[1..n -> EntryPool] : n \in 0..MaxEntries} :
        \A i, j \in 1..Len(t) : i # j => t[i].name # t[j].name}

\* the --delimiter arguments tried: none, ";", the two characters \t, ";;"
ArgDelimiters == {<<>>, <<";">>, <<"\\", "t">>, <<";", ";">>}

RECURSIVE Concat(_)
Concat(ss) == IF ss = <<>> THEN <<>> ELSE ss[1] \o Concat(Tail(ss))

\* os.listdir(input_dir) joined to input_dir: every entry, directories too
listdir_paths(t) == [i \in 1..Len(t) |-> join(input_dir, t[i].name)]

\* the filenames os.walk(input_dir) yields, joined to their root: the
\* non-directory entries of the top, then those of each directory
walk_paths(t) ==
    SelectSeq([i \in 1..Len(t) |->
                  IF t[i].kind = "file" THEN join(input_dir, t[i].name) ELSE <<>>],
              LAMBDA p : p # <<>>)
    \o Concat([i \in 1..Len(t) |->
                  [k \in 1..Len(t[i].children) |->
                      join(join(input_dir, t[i].name), t[i].children[k].name)]])

\* what is at a path: its kind and content
Nodes(t) ==
    {[path |-> join(input_dir, t[i].name), kind |-> t[i].kind, content |-> t[i].content] :
        i \in 1..Len(t)}
    \cup UNION {{[path |-> join(join(input_dir, t[i].name), t[i].children[k].name),
                  kind |-> "file", content |-> t[i].children[k].content] :
                    k \in 1..Len(t[i].children)} : i \in 1..Len(t)}

NodeAt(t, path) == CHOOSE n \in Nodes(t) : n.path = path

(***************************************************************************)
(* find_csv_files                                                          *)
(***************************************************************************)
\* fn.lower().endswith(".csv")
is_csv(fn) == EndsWith(Lower(fn), CsvExt)

\* key=lambda p: os.path.basename(p).lower()
sort_key(p) == Lower(basename(p))

\* x put after the elements of the sorted s whose key is not greater
insert_sorted(s, x) ==
    LET n == Cardinality({i \in 1..Len(s) : ~StrLess(sort_key(x), sort_key(s[i]))})
    IN  SubSeq(s, 1, n) \o <<x>> \o SubSeq(s, n + 1, Len(s))

\* sorted(files, key=...): stable, equal keys keep the listing order
RECURSIVE sorted_by_key(_)
sorted_by_key(files) ==
    IF files = <<>> THEN <<>>
    ELSE insert_sorted(sorted_by_key(SubSeq(files, 1, Len(files) - 1)), files[Len(files)])

find_csv_files(t, rec) ==
    LET listed == IF rec THEN walk_paths(t) ELSE listdir_paths(t)
        files == SelectSeq(listed, LAMBDA p : is_csv(basename(p)))
    IN  sorted_by_key(files)

(***************************************************************************)
(* main and combine_csvs_to_excel, one action per step.                    *)
(*   pc: main, combine, next_file, first_row, rows, outdir, save, exit     *)
(*   exc: the exception that left main, "" while there is none             *)
(*   reader: the read_csv_rows generator of the current file               *)
(*   sniffed, failed, calls: what happened, kept for the properties        *)
(***************************************************************************)
NoReader == [opened |-> FALSE, rows |-> <<>>]

NoSniff == [called |-> FALSE, raised |-> FALSE, delimiter |-> ""]

\* delimiter = args.delimiter; "\\t" becomes a tab; None when not given
main_delimiter(arg) ==
    IF arg # <<>>
    THEN IF Lower(arg) = <<"\\", "t">> THEN <<"\t">> ELSE arg
    ELSE <<>>

RunInit ==
    /\ pc = "main"
    /\ exc = ""
    /\ csv_files = <<>>
    /\ idx = 0
    /\ wbCreated = FALSE
    /\ sheets = <<>>
    /\ used_names = {}
    /\ reader = NoReader
    /\ sniffed = NoSniff
    /\ failed = {}
    /\ outdirMade = FALSE
    /\ saves = 0
    /\ sanArg = <<>>
    /\ calls = <<>>

Init ==
    /\ \/ isdir = FALSE /\ tree = <<>>
       \/ isdir = TRUE /\ tree \in Trees
    /\ argDelimiter \in ArgDelimiters
    /\ recursive \in BOOLEAN
    /\ RunInit

\* main: the directory check
Main ==
    /\ pc = "main"
    /\ IF ~isdir
       THEN pc' = "exit" /\ exc' = "NotADirectoryError"
       ELSE pc' = "combine" /\ exc' = exc
    /\ UNCHANGED <<isdir, argDelimiter, recursive, tree, csv_files, idx, wbCreated,
                   sheets, used_names, reader, sniffed, failed, outdirMade, saves,
                   sanArg, calls>>

\* a combine that creates the workbook before it looks at the file list
Discover_workbook_first ==
    /\ pc = "combine"
    /\ csv_files' = find_csv_files(tree, recursive)
    /\ wbCreated' = TRUE
    /\ IF csv_files' = <<>>
       THEN pc' = "exit" /\ exc' = "FileNotFoundError" /\ idx' = idx
       ELSE pc' = "next_file" /\ exc' = exc /\ idx' = 1
    /\ used_names' = {}
    /\ UNCHANGED <<isdir, argDelimiter, recursive, tree, sheets, reader, sniffed,
                   failed, outdirMade, saves, sanArg, calls>>

\* combine_csvs_to_excel up to the loop: find the files, fail when there are
\* none, else create the workbook and the used-names set
Discover ==
    /\ pc = "combine"
    /\ csv_files' = find_csv_files(tree, recursive)
    /\ IF csv_files' = <<>>
       THEN /\ pc' = "exit"
            /\ exc' = "FileNotFoundError"
            /\ UNCHANGED <<wbCreated, idx>>
       ELSE /\ pc' = "next_file"
            /\ exc' = exc
            /\ wbCreated' = TRUE
            /\ idx' = 1
    /\ used_names' = {}
    /\ UNCHANGED <<isdir, argDelimiter, recursive, tree, sheets, reader, sniffed,
                   failed, outdirMade, saves, sanArg, calls>>

\* the head of the loop body: the sheet name, the new sheet, the generator
StartFile ==
    /\ pc = "next_file"
    /\ idx <= Len(csv_files)
    /\ LET csv_path == csv_files[idx]
           r == sanitize_sheet_name(basename(csv_path), used_names)
       IN  /\ used_names' = r.used
           /\ sheets' = Append(sheets, [title |-> r.title, rows |-> <<>>, path |-> csv_path])
           /\ calls' = Append(calls, [name |-> basename(csv_path), title |-> r.title,
                                      before |-> used_names, after |-> r.used])
    /\ reader' = NoReader
    /\ pc' = "first_row"
    /\ UNCHANGED <<isdir, argDelimiter, recursive, tree, exc, csv_files, idx, wbCreated,
                   sniffed, failed, outdirMade, saves, sanArg>>

\* an except that ends the run at the first file that fails
GiveUpFile_and_stop ==
    /\ failed' = failed \cup {idx}
    /\ idx' = idx
    /\ reader' = NoReader
    /\ pc' = "exit"

\* except Exception: the file is given up, the loop goes on
GiveUpFile ==
    /\ failed' = failed \cup {idx}
    /\ idx' = idx + 1
    /\ reader' = NoReader
    /\ pc' = "next_file"

\* the generator's first step: open the file, read the sample, sniff the
\* dialect, open the file as text. A directory cannot be opened; a dialect
\* that is not valid raises.
OpenFile ==
    /\ pc = "first_row"
    /\ LET node == NodeAt(tree, csv_files[idx])
           sample == Slice(node.content, SAMPLE_BYTES)
       IN  IF node.kind = "dir"
           THEN GiveUpFile /\ UNCHANGED sniffed
           ELSE \E d \in sniff_dialect(sample, main_delimiter(argDelimiter)) :
                   /\ sniffed' = [called |-> TRUE, raised |-> d.raised,
                                  delimiter |-> d.delimiter]
                   /\ IF d.raised
                      THEN GiveUpFile
                      ELSE /\ reader' = [opened |-> TRUE,
                                         rows |-> csv_reader(node.content, d.delimiter)]
                           /\ pc' = "rows"
                           /\ UNCHANGED <<idx, failed>>
    /\ UNCHANGED <<isdir, argDelimiter, recursive, tree, exc, csv_files, wbCreated,
                   sheets, used_names, outdirMade, saves, sanArg, calls>>

\* for row in reader: ws.append(row)
AppendRow ==
    /\ pc = "rows"
    /\ reader.rows # <<>>
    /\ sheets' = [sheets EXCEPT ![idx].rows = Append(@, Head(reader.rows))]
    /\ reader' = [reader EXCEPT !.rows = Tail(@)]
    /\ UNCHANGED <<isdir, argDelimiter, recursive, tree, pc, exc, csv_files, idx,
                   wbCreated, used_names, sniffed, failed, outdirMade, saves,
                   sanArg, calls>>

\* the reader is exhausted: the next file
EndFile ==
    /\ pc = "rows"
    /\ reader.rows = <<>>
    /\ idx' = idx + 1
    /\ reader' = NoReader
    /\ pc' = "next_file"
    /\ UNCHANGED <<isdir, argDelimiter, recursive, tree, exc, csv_files, wbCreated,
                   sheets, used_names, sniffed, failed, outdirMade, saves, sanArg, calls>>

\* opening, reading or appending raises (an I/O error, a row the sheet
\* refuses): caught by the loop's except
ReadError ==
    /\ pc \in {"first_row", "rows"}
    /\ GiveUpFile
    /\ UNCHANGED <<isdir, argDelimiter, recursive, tree, exc, csv_files, wbCreated,
                   sheets, used_names, sniffed, outdirMade, saves, sanArg, calls>>

\* after the loop: os.makedirs(outdir, exist_ok=True), which may raise
EnsureOutdir ==
    /\ pc = "next_file"
    /\ idx > Len(csv_files)
    /\ \/ outdirMade' = TRUE /\ pc' = "save" /\ exc' = exc
       \/ outdirMade' = outdirMade /\ pc' = "exit" /\ exc' = "OSError"
    /\ UNCHANGED <<isdir, argDelimiter, recursive, tree, csv_files, idx, wbCreated,
                   sheets, used_names, reader, sniffed, failed, saves, sanArg, calls>>

\* wb.save(output_path), which may raise
Save ==
    /\ pc = "save"
    /\ saves' = saves + 1
    /\ pc' = "exit"
    /\ \/ exc' = exc
       \/ exc' = "OSError"
    /\ UNCHANGED <<isdir, argDelimiter, recursive, tree, csv_files, idx, wbCreated,
                   sheets, used_names, reader, sniffed, failed, outdirMade, sanArg, calls>>

Next ==
    \/ Main
    \/ Discover
    \/ StartFile
    \/ OpenFile
    \/ AppendRow
    \/ EndFile
    \/ ReadError
    \/ EnsureOutdir
    \/ Save

Spec == Init /\ [][Next]_vars

(***************************************************************************)
(* sanitize_sheet_name alone: one call, on a name and a used-names set     *)
(* drawn from bounded sets.                                                *)
(***************************************************************************)
SanAlphabet == {"a", ".", " ", "?", "/"}

\* 29 characters, so that a tail of 2 or 3 crosses MAX_SHEET_LEN
Pad == [i \in 1..(MAX_SHEET_LEN - 2) |-> "x"]

Tails == UNION {[1..n -> SanAlphabet] : n \in 0..MaxNameLen}

SanNames == Tails \cup {Pad \o t : t \in Tails}

\* the k titles a run of k files of this name has taken: the base and its
\* first k - 1 suffixed candidates
Taken(name, k) ==
    IF k = 0 THEN {}
    ELSE {base_of(name)} \cup {next_candidate(base_of(name), j) : j \in 1..(k - 1)}

RunIdle ==
    /\ isdir = TRUE
    /\ tree = <<>>
    /\ argDelimiter = <<>>
    /\ recursive = FALSE
    /\ exc = ""
    /\ csv_files = <<>>
    /\ idx = 0
    /\ wbCreated = FALSE
    /\ sheets = <<>>
    /\ reader = NoReader
    /\ sniffed = NoSniff
    /\ failed = {}
    /\ outdirMade = FALSE
    /\ saves = 0

RunUnchanged ==
    UNCHANGED <<isdir, argDelimiter, recursive, tree, exc, csv_files, idx, wbCreated,
                sheets, reader, sniffed, failed, outdirMade, saves>>

SanInit ==
    /\ RunIdle
    /\ pc = "san"
    /\ sanArg \in SanNames
    /\ \E k \in 0..MaxTaken : used_names = Taken(sanArg, k)
    /\ calls = <<>>

SanCall ==
    /\ pc = "san"
    /\ LET r == sanitize_sheet_name(sanArg, used_names)
       IN  /\ used_names' = r.used
           /\ calls' = <<[name |-> sanArg, title |-> r.title,
                          before |-> used_names, after |-> r.used]>>
    /\ pc' = "san_done"
    /\ UNCHANGED sanArg
    /\ RunUnchanged

SanNext == SanCall

SanSpec == SanInit /\ [][SanNext]_vars

(***************************************************************************)
(* A sequence of calls sharing one used-names set that starts empty, as    *)
(* in one run, on names in any order.                                      *)
(***************************************************************************)
\* a.csv, " a.csv", a_1.csv, b?.csv, 31 x's, 29 x's and _1
SeqNames ==
    { <<"a">> \o CsvExt,
      <<" ", "a">> \o CsvExt,
      <<"a", "_", "1">> \o CsvExt,
      <<"b", "?">> \o CsvExt,
      Pad \o <<"x", "x">> \o CsvExt,
      Pad \o <<"_", "1">> \o CsvExt }

SeqInit ==
    /\ RunIdle
    /\ pc = "seq"
    /\ sanArg = <<>>
    /\ used_names = {}
    /\ calls = <<>>

SeqCall ==
    /\ pc = "seq"
    /\ Len(calls) < MaxCalls
    /\ \E n \in SeqNames :
          LET r == sanitize_sheet_name(n, used_names)
          IN  /\ used_names' = r.used
              /\ calls' = Append(calls, [name |-> n, title |-> r.title,
                                         before |-> used_names, after |-> r.used])
    /\ UNCHANGED <<pc, sanArg>>
    /\ RunUnchanged

SeqNext == SeqCall

SeqSpec == SeqInit /\ [][SeqNext]_vars

(***************************************************************************)
(* Properties of sanitize_sheet_name.                                      *)
(***************************************************************************)
HasIllegal(s) == \E i \in 1..Len(s) : s[i] \in ILLEGAL_SHEET_CHARS

\* "Sheet", or "Sheet" with a counter suffix
IsFallbackTitle(t) ==
    \/ t = SheetFallback
    \/ \E k \in 1..(MaxTaken + 1) : t = SheetFallback \o <<"_">> \o Str(k)

\* C1: every title returned is non-empty, at most 31 characters long and
\* free of the illegal characters, with or without a counter suffix.
C1_TitleValid ==
    \A i \in 1..Len(calls) :
        LET t == calls[i].title
        IN  /\ t # <<>>
            /\ Len(t) <= MAX_SHEET_LEN
            /\ ~HasIllegal(t)

\* a name with an illegal character, longer than the limit, whose base and
\* first nine candidates are taken: the title is 31 long and ends in _10
C1_Witness ==
    /\ pc = "san_done"
    /\ HasIllegal(calls[1].name)
    /\ Len(calls[1].name) > MAX_SHEET_LEN
    /\ Cardinality(calls[1].before) = 10
    /\ Len(calls[1].title) = MAX_SHEET_LEN
    /\ SubSeq(calls[1].title, MAX_SHEET_LEN - 2, MAX_SHEET_LEN) = <<"_", "1", "0">>

\* C7 (as claimed): the title returned has no leading and no trailing
\* whitespace, and is the fallback Sheet, possibly suffixed, when the
\* extension-stripped, character-replaced name is empty or all whitespace.
C7_TitleTrimmed ==
    \A i \in 1..Len(calls) :
        LET t == calls[i].title
            replaced == replace_illegal(splitext(calls[i].name)[1])
        IN  /\ t # <<>> => t[1] \notin Whitespace /\ t[Len(t)] \notin Whitespace
            /\ (\A k \in 1..Len(replaced) : replaced[k] \in Whitespace)
                   => IsFallbackTitle(t)

\* the start of the final path segment of a name
SegStart(name) == RFind(name, "/") + 1

\* the name up to the last "." of its final segment
CutAtLastDot(name) == SubSeq(name, 1, RFind(name, ".") - 1)

\* the title the rest of the sanitizer makes of an extension-stripped name
title_of_root(root, used) ==
    LET base == Slice(clean_root(root), MAX_SHEET_LEN)
    IN  unique_candidate(base, used, base, 1)

\* C8 (as claimed): when the final path segment of the name holds a ".", the
\* text from the last "." to the end is removed, whatever precedes it.
C8_LastDotCut ==
    \A i \in 1..Len(calls) :
        LET name == calls[i].name
        IN  RFind(name, ".") >= SegStart(name)
                => calls[i].title = title_of_root(CutAtLastDot(name), calls[i].before)

\* the number of "." the final segment starts with
LeadingDots(name) ==
    Cardinality({n \in 1..(Len(name) - SegStart(name) + 1) :
                    \A k \in SegStart(name)..(SegStart(name) + n - 1) : name[k] = "."})

\* C8 (amended): the text from the last "." of the final segment to the end
\* is removed, and nothing else, when that "." is not one of the dots the
\* segment starts with; a name whose only dots are those (.csv) and a name
\* with no dot in its final segment lose nothing.
C8_LastDotCutUnlessLeading ==
    \A i \in 1..Len(calls) :
        LET name == calls[i].name
            expected == IF RFind(name, ".") >= SegStart(name) + LeadingDots(name)
                        THEN CutAtLastDot(name)
                        ELSE name
        IN  calls[i].title = title_of_root(expected, calls[i].before)

\* the name .a. : it starts with a dot and holds two; only the last goes
C8_Witness ==
    /\ pc = "san_done"
    /\ calls[1].name = <<".", "a", ".">>
    /\ calls[1].before = {}
    /\ calls[1].title = <<".", "a">>

(***************************************************************************)
(* Properties of a sequence of calls.                                      *)
(***************************************************************************)
TitlesBefore(i) == {calls[j].title : j \in 1..(i - 1)}

\* C2: the titles of one sequence of calls are pairwise distinct, and each
\* is in the used-names set after its call.
C2_TitlesDistinct ==
    /\ \A i, j \in 1..Len(calls) : i # j => calls[i].title # calls[j].title
    /\ \A i \in 1..Len(calls) :
          /\ calls[i].title \in calls[i].after
          /\ calls[i].title \in used_names

\* the names a, a, a_1: the third sanitizes to the second's suffixed title
C2_Witness ==
    /\ pc = "seq"
    /\ Len(calls) = 3
    /\ calls[1].name = <<"a">> \o CsvExt /\ calls[1].title = <<"a">>
    /\ calls[2].name = <<"a">> \o CsvExt /\ calls[2].title = <<"a", "_", "1">>
    /\ calls[3].name = <<"a", "_", "1">> \o CsvExt
    /\ calls[3].title = <<"a", "_", "1", "_", "1">>

\* C10 (as claimed): the first name of a base receives the base unsuffixed,
\* and only later names of the same base receive a suffix.
C10_FirstOfBaseUnsuffixed ==
    \A i \in 1..Len(calls) :
        LET base == base_of(calls[i].name)
            first == \A j \in 1..(i - 1) : base_of(calls[j].name) # base
        IN  first <=> calls[i].title = base

\* the candidate with counter k, written out
SuffixedTitle(base, k) ==
    LET digits == Str(k)
        room == MAX_SHEET_LEN - 1 - Len(digits)
    IN  SubSeq(base, 1, Min(Len(base), room)) \o <<"_">> \o digits

\* C10 (amended): a name receives its base unsuffixed exactly when no earlier
\* call returned that string as its title; otherwise it receives the base,
\* shortened to make room, with the least counter from 1 whose candidate no
\* earlier call returned.
C10_FirstFreeCandidate ==
    \A i \in 1..Len(calls) :
        LET base == base_of(calls[i].name)
            t == calls[i].title
        IN  /\ calls[i].before = TitlesBefore(i)
            /\ base \notin TitlesBefore(i) <=> t = base
            /\ base \in TitlesBefore(i) =>
                  \E k \in 1..i :
                      /\ t = SuffixedTitle(base, k)
                      /\ t \notin TitlesBefore(i)
                      /\ \A m \in 1..(k - 1) : SuffixedTitle(base, m) \in TitlesBefore(i)

\* two names of base a, then the first name of base a_1: counters 1 and 1,
\* the third suffixed although no earlier name had its base
C10_Witness ==
    /\ pc = "seq"
    /\ Len(calls) = 3
    /\ base_of(calls[1].name) = <<"a">> /\ calls[1].title = <<"a">>
    /\ base_of(calls[2].name) = <<"a">> /\ calls[2].title = SuffixedTitle(<<"a">>, 1)
    /\ calls[1].name # calls[2].name
    /\ base_of(calls[3].name) = <<"a", "_", "1">>
    /\ calls[3].title = SuffixedTitle(<<"a", "_", "1">>, 1)

(***************************************************************************)
(* Properties of a run.                                                    *)
(***************************************************************************)
SalesCsv == <<"s", "a", "l", "e", "s">> \o CsvExt

SalesBackupCsv == <<"s", "a", "l", "e", "s", ".", "b", "a", "c", "k", "u", "p">> \o CsvExt

SalesRows == << <<<<"n", "a", "m", "e">>, <<"a", "m", "t">>>>, <<<<"x">>, <<"1">>>> >>

Titles == [i \in 1..Len(sheets) |-> sheets[i].title]

\* a run over sales.csv and sales.backup.csv alone, with no delimiter given,
\* that read every file and saved the workbook
SalesRunDone ==
    /\ {tree[i].name : i \in 1..Len(tree)} = {SalesCsv, SalesBackupCsv}
    /\ argDelimiter = <<>>
    /\ pc = "exit"
    /\ exc = ""
    /\ failed = {}

\* C3 (as claimed): the run makes the sheets sales and sales_1, and the
\* first holds the rows [name, amt] and [x, 1].
C3_SalesAndSales1 ==
    SalesRunDone =>
        /\ Titles = << <<"s", "a", "l", "e", "s">>, <<"s", "a", "l", "e", "s", "_", "1">> >>
        /\ sheets[1].rows = SalesRows

\* C3 (amended): sales.backup.csv sorts before sales.csv and loses only its
\* last extension, so the sheets are sales.backup and sales, in that order,
\* and the sheet sales, made from sales.csv, holds [name, amt] and [x, 1].
C3_SalesBackupAndSales ==
    SalesRunDone =>
        /\ Titles = << <<"s", "a", "l", "e", "s", ".", "b", "a", "c", "k", "u", "p">>,
                       <<"s", "a", "l", "e", "s">> >>
        /\ basename(sheets[2].path) = SalesCsv
        /\ sheets[2].rows = SalesRows

\* the run, with sales.csv listed first by the directory
C3_Witness ==
    /\ SalesRunDone
    /\ saves = 1
    /\ tree[1].name = SalesCsv
    /\ Len(sheets) = 2

IsPrefix(s, t) == Len(s) <= Len(t) /\ SubSeq(t, 1, Len(s)) = s

\* the rows a reader can give for the file at a path
PossibleRows(path) ==
    LET node == NodeAt(tree, path)
    IN  IF node.kind = "dir" THEN {<<>>}
        ELSE {csv_reader(node.content, d) :
                 d \in SNIFF_DELIMITERS \cup Chars(main_delimiter(argDelimiter))}

\* C4: a file whose reading or appending raises is given up alone: its sheet
\* stays with the rows appended before the error, every later file is still
\* processed, the workbook ends with one sheet per discovered file in
\* discovery order, and it is saved once, after the last file.
C4_PerFileContainment ==
    /\ Len(sheets) <= Len(csv_files)
    /\ \A i \in 1..Len(sheets) :
          /\ sheets[i].path = csv_files[i]
          /\ \E rows \in PossibleRows(csv_files[i]) :
                /\ IsPrefix(sheets[i].rows, rows)
                /\ (i < idx /\ i \notin failed) => sheets[i].rows = rows
    /\ failed \subseteq 1..Len(sheets)
    /\ (pc = "exit" /\ csv_files # <<>>) =>
          /\ Len(sheets) = Len(csv_files)
          /\ idx = Len(csv_files) + 1
          /\ exc \in {"", "OSError"}
          /\ exc = "" => saves = 1
    /\ saves <= 1
    /\ saves = 1 => pc = "exit" /\ outdirMade

\* a run in which a file failed after a row was appended, a later file was
\* read in full, and the workbook was saved
C4_Witness ==
    /\ pc = "exit"
    /\ exc = ""
    /\ saves = 1
    /\ Len(csv_files) = 3
    /\ \E i \in failed :
          /\ sheets[i].rows # <<>>
          /\ \E j \in (i + 1)..Len(sheets) : j \notin failed /\ sheets[j].rows # <<>>

\* C5: with no CSV file found the run fails with the no-files error before
\* any output effect: no workbook, no sheet name, no directory, no save.
C5_NoFilesNoOutput ==
    /\ (isdir /\ pc \notin {"main", "combine"} /\ csv_files = <<>>) =>
          /\ pc = "exit"
          /\ exc = "FileNotFoundError"
          /\ ~wbCreated
          /\ sheets = <<>>
          /\ calls = <<>>
          /\ used_names = {}
          /\ ~outdirMade
          /\ saves = 0
    /\ exc = "FileNotFoundError" => csv_files = <<>>

\* a directory that is not empty and holds no CSV file
C5_Witness ==
    /\ pc = "exit"
    /\ exc = "FileNotFoundError"
    /\ tree # <<>>
    /\ find_csv_files(tree, recursive) = <<>>

\* C6 (as claimed): sniff_dialect never raises to its caller, whatever the
\* sample and the delimiter given.
C6_SniffNeverRaises == sniffed.called => ~sniffed.raised

\* the paths of the files (not the directories) with a CSV name: the direct
\* children, or the whole tree
CsvFilePaths ==
    {n.path : n \in {m \in Nodes(tree) :
        /\ m.kind = "file"
        /\ is_csv(basename(m.path))
        /\ recursive \/ Len(m.path) = Len(input_dir) + 1 + Len(basename(m.path))}}

\* C9 (as claimed): find_csv_files returns exactly the files with a CSV name,
\* each once, in ascending order of the lowercased base filename, and the
\* sheets are made in that order.
C9_DiscoveryExact ==
    (isdir /\ pc \notin {"main", "combine"}) =>
        /\ {csv_files[i] : i \in 1..Len(csv_files)} = CsvFilePaths
        /\ Len(csv_files) = Cardinality(CsvFilePaths)
        /\ \A i, j \in 1..Len(csv_files) :
              i < j => ~StrLess(sort_key(csv_files[j]), sort_key(csv_files[i]))
        /\ \A i \in 1..Len(sheets) : sheets[i].path = csv_files[i]

====
